---- MODULE Spec2Model ----
(***************************************************************************)
(* AWSTranscribeClient (src/src/aws-transcribe-client.ts): the session     *)
(* controller, its silence timers, the ReadableStream bridge, the          *)
(* credential cache and the result-consumption task, as a state machine.   *)
(*                                                                         *)
(* Time is counted in units of 1000 ms (the countdown interval).  Usage    *)
(* "minutes" are kept in the same unit: the code divides the elapsed       *)
(* milliseconds by 60000, a change of unit only.                           *)
(* Every resource acquired by the n-th call of start() carries the         *)
(* identity n.                                                             *)
(***************************************************************************)
EXTENDS Integers, Sequences, FiniteSets, TLC

\* ---------------------------------------------------------------- bounds
MaxTime == 5
\* calls of start() in one behaviour, by specification
MaxStarts == 1
MaxResultStarts == 1
MaxCredStarts == 1
MaxBridgeStarts == 1
MaxStoreStarts == 2
MaxCycles == 2
MaxOverlap == 2
MaxQueue == 2
MaxLen == 8
MaxMinutes == 4
\* config.maxSilenceDuration, in time units (the default is 60)
MaxSilenceDuration == 2
MaxFrameLen == 2
MaxItems == 3
MaxPulls == 3
MaxCloses == 2

\* ------------------------------------------------------ program constants
NULL == -1
VAD_THRESHOLD == 20
SILENCE_DURATION == 1
COUNTDOWN_PERIOD == 1
PCM_SCALE == 32767
SAMPLE_UNIT == 1000

Largest(S) == CHOOSE n \in S : \A m \in S : m <= n
Ids == 1..Largest({MaxStarts, MaxResultStarts, MaxCredStarts, MaxBridgeStarts,
                   MaxStoreStarts, MaxCycles, MaxOverlap})

\* Audio frames: samples in thousandths of full scale.
SilentFrame == <<10, -10>>
SpeechFrame == <<50, -50>>
Frames == {SilentFrame, SpeechFrame}

\* Result events of the inbound stream: results[0] of a TranscriptEvent.
RTexts == {"hel", "hello"}
ResultEvents ==
    {[IsPartial |-> p, Alternatives |-> <<t>>] : p \in BOOLEAN, t \in RTexts}
        \cup {[IsPartial |-> TRUE, Alternatives |-> <<>>]}

\* Errors that an awaited step of start() can raise, by message.
CaptureErrors == {"Permission denied", ""}
GraphError == "The number of hardware contexts reached maximum"
ProviderError == "Credentials error"
SendError == "Network failure"
StreamErrors ==
    {[name |-> "AbortError", message |-> "Request aborted"],
     [name |-> "Error", message |-> "socket closed"],
     [name |-> "Error", message |-> ""]}

\* Lifetimes of the credentials a provider hands out, from the call.
CredTTLs == {0, 2}
LongTTL == {2}

\* ------------------------------------------------------------ pure helpers
RECURSIVE SumSquares(_)
SumSquares(s) ==
    IF s = <<>> THEN 0 ELSE Head(s) * Head(s) + SumSquares(Tail(s))

\* variant: a frame whose rms equals the threshold counts as speech
DetectVoiceActivityBroken(inputData, vadThreshold) ==
    SumSquares(inputData) >= vadThreshold * vadThreshold * Len(inputData)

\* rms > threshold, with rms = sqrt(sum(x^2) / n).  For n = 0 the quotient is
\* NaN and every comparison with NaN is false.
DetectVoiceActivity(inputData, vadThreshold) ==
    IF Len(inputData) = 0 THEN FALSE
    ELSE IF vadThreshold < 0 THEN TRUE
    ELSE SumSquares(inputData) > vadThreshold * vadThreshold * Len(inputData)

Clamp(x) == IF x < -SAMPLE_UNIT THEN -SAMPLE_UNIT
            ELSE IF x > SAMPLE_UNIT THEN SAMPLE_UNIT ELSE x

\* Float32 samples to Int16 PCM: floor(clamp(sample) * 32767).
Pcm16(inputData) ==
    [i \in 1..Len(inputData) |-> (Clamp(inputData[i]) * PCM_SCALE) \div SAMPLE_UNIT]

\* result.Alternatives[0]?.Transcript || ''
AltTranscript(result) ==
    IF Len(result.Alternatives) = 0 THEN "" ELSE result.Alternatives[1]

\* error.message || "Failed to start transcription"
StartErrorMessage(msg) ==
    IF msg = "" THEN "Failed to start transcription" ELSE msg

\* ------------------------------------------------------------------ state
VARIABLES
    env,          \* what the surroundings do in this behaviour (see the Inits)
    cfg,          \* browserSupported (set by the constructor's probe), hasProvider
    now,          \* Date.now(), in time units
    this,         \* the fields of the AWSTranscribeClient instance
    storage,      \* localStorage: the credential entry and the minutes entry
    calls,        \* calls[n]: where the n-th start() is suspended
    live,         \* resources acquired and not yet released, by kind
    handlers,     \* processor nodes whose onaudioprocess is set
    late,         \* released nodes with one audio event still queued
    bridges,      \* the ReadableStream objects, by identity
    sent,         \* bridges handed to transcribeClient.send()
    results,      \* results[n]: the inbound stream of session n
    pending,      \* timers of the event loop: short, long, countdown
    resetHanded,  \* a resetTranscript closure was handed to onTranscript
    op,           \* the operation that made the last step
    emitted,      \* the callbacks that operation fired, in order
    probe         \* a component taken alone: its inputs and what was observed

vars == <<env, cfg, probe, now, this, storage, calls, live, handlers, late, bridges, sent,
          results, pending, resetHanded, op, emitted>>

\* ------------------------------------------------------- ReadableStream
NewBridge == [buffer |-> <<>>, listeners |-> <<>>, closed |-> FALSE]

\* variant: enqueue buffers the chunk although a request is waiting
EnqueueAlwaysBuffers(b, chunk) ==
    IF b.closed THEN b ELSE [b EXCEPT !.buffer = Append(@, chunk)]

\* variant: enqueue without the test of closed
EnqueueIgnoresClosed(b, chunk) ==
    IF Len(b.listeners) > 0 THEN [b EXCEPT !.listeners = Tail(@)]
    ELSE [b EXCEPT !.buffer = Append(@, chunk)]

Enqueue(b, chunk) ==
    IF b.closed THEN b
    ELSE IF Len(b.listeners) > 0 THEN [b EXCEPT !.listeners = Tail(@)]
    ELSE [b EXCEPT !.buffer = Append(@, chunk)]

Close(b) == [b EXCEPT !.closed = TRUE, !.listeners = <<>>]

\* variant: next() takes the newest chunk out of the buffer
NextItemTakesNewest(b, r) ==
    IF b.closed /\ Len(b.buffer) = 0 THEN b
    ELSE IF Len(b.buffer) > 0 THEN [b EXCEPT !.buffer = SubSeq(@, 1, Len(@) - 1)]
    ELSE [b EXCEPT !.listeners = Append(@, r)]

\* next() of the async iterator, called by reader r
NextItem(b, r) ==
    IF b.closed /\ Len(b.buffer) = 0 THEN b
    ELSE IF Len(b.buffer) > 0 THEN [b EXCEPT !.buffer = Tail(@)]
    ELSE [b EXCEPT !.listeners = Append(@, r)]

\* What a call of the stream resolves: the requests (by the identity of the
\* listener) and the { value, done } each one receives.
Item(r, chunk) == [to |-> r, value |-> chunk, done |-> FALSE]

Done(r) == [to |-> r, value |-> NULL, done |-> TRUE]

EnqueueResolves(b, chunk) ==
    IF ~b.closed /\ Len(b.listeners) > 0 THEN <<Item(Head(b.listeners), chunk)>>
    ELSE <<>>

\* variant: close() answers the oldest request only
CloseResolvesOldest(b) ==
    IF Len(b.listeners) > 0 THEN <<Done(Head(b.listeners))>> ELSE <<>>

CloseResolves(b) == [k \in 1..Len(b.listeners) |-> Done(b.listeners[k])]

\* variant: next() hands out the newest chunk of the buffer
NextResolvesNewest(b, r) ==
    IF b.closed /\ Len(b.buffer) = 0 THEN <<Done(r)>>
    ELSE IF Len(b.buffer) > 0 THEN <<Item(r, b.buffer[Len(b.buffer)])>>
    ELSE <<>>

NextResolves(b, r) ==
    IF b.closed /\ Len(b.buffer) = 0 THEN <<Done(r)>>
    ELSE IF Len(b.buffer) > 0 THEN <<Item(r, Head(b.buffer))>>
    ELSE <<>>

\* ------------------------------------------------------- persisted store
\* localStorage: present (typeof localStorage # 'undefined') or not; the entry
\* under STORAGE_KEY is absent (creds = {}, ~corrupt), a credential that
\* JSON.parse reads (creds = {c}) or a blob it rejects (corrupt); the entry
\* under MINUTES_USED_KEY is absent (NULL) or a number.
Store(c, m) == [present |-> TRUE, corrupt |-> FALSE, creds |-> c, minutes |-> m]

EmptyStore == Store({}, NULL)

CorruptStore(m) == [Store({}, m) EXCEPT !.corrupt = TRUE]

NoStore == [EmptyStore EXCEPT !.present = FALSE]

\* what loadStoredCredentials returns: a credential, or nothing (null)
LoadStoredCredentials(stg) ==
    IF ~stg.present \/ stg.corrupt THEN {} ELSE stg.creds

\* the store after loadStoredCredentials: a blob that failed to parse is removed
AfterLoad(stg) ==
    IF stg.present /\ stg.corrupt THEN [stg EXCEPT !.corrupt = FALSE] ELSE stg

\* variant: storeCredentials without the test for a missing localStorage
StoreCredentialsUnguarded(stg, creds) ==
    [stg EXCEPT !.creds = {creds}, !.corrupt = FALSE]

StoreCredentials(stg, creds) ==
    IF ~stg.present THEN stg
    ELSE [stg EXCEPT !.creds = {creds}, !.corrupt = FALSE]

GetMinutesUsed(stg) ==
    IF ~stg.present \/ stg.minutes = NULL THEN 0 ELSE stg.minutes

StoreMinutesUsed(stg, minutes) ==
    IF ~stg.present THEN stg ELSE [stg EXCEPT !.minutes = minutes]

\* variant: a credential counts as usable up to and at its expiration
UsableCredentialsInclusive(stg, time) ==
    {c \in LoadStoredCredentials(stg) : c.expiration >= time}

\* existingCreds && existingCreds.expiration.getTime() > Date.now()
UsableCredentials(stg, time) ==
    {c \in LoadStoredCredentials(stg) : c.expiration > time}

\* ------------------------------------------------------------ callbacks
StateChange(l, s, cd) ==
    [cb |-> "onStateChange", isListening |-> l, isActivelySpeaking |-> s,
     silenceCountdown |-> cd]

OnError(msg) == [cb |-> "onError", message |-> msg]

OnTranscript(transcript, interim) ==
    [cb |-> "onTranscript", transcript |-> transcript, interimTranscript |-> interim]

\* ----------------------------------------------------- the React binding
\* setError(err.message || 'Failed to toggle speech recognition')
FailedToToggle == "Failed to toggle speech recognition"

\* The hooks of a ReactAWSTranscribe component after its mount effect ran.
NewComponent(supported) ==
    [mounted |-> TRUE, isListening |-> FALSE, isActivelySpeaking |-> FALSE,
     silenceCountdown |-> NULL, browserSupported |-> supported, error |-> NULL]

\* a component is mounted and its closures are the callbacks of the client
Mounted(p) == DOMAIN p = DOMAIN NewComponent(TRUE) /\ p.mounted

\* variant: the state-change closure leaves isListening as it was
OnCallbackKeepsListening(p, e) ==
    IF e.cb = "onStateChange"
    THEN [p EXCEPT !.isActivelySpeaking = e.isActivelySpeaking,
                   !.silenceCountdown = IF e.silenceCountdown # <<>>
                                        THEN e.silenceCountdown[1] ELSE @]
    ELSE IF e.cb = "onError" THEN [p EXCEPT !.error = e.message]
    ELSE p

\* The closures the component hands to the client.  A state update without
\* a silenceCountdown field leaves the hook as it was.
OnCallback(p, e) ==
    IF e.cb = "onStateChange"
    THEN [p EXCEPT !.isListening = e.isListening,
                   !.isActivelySpeaking = e.isActivelySpeaking,
                   !.silenceCountdown = IF e.silenceCountdown # <<>>
                                        THEN e.silenceCountdown[1] ELSE @]
    ELSE IF e.cb = "onError" THEN [p EXCEPT !.error = e.message]
    ELSE p

RECURSIVE Deliver(_, _)
Deliver(p, es) ==
    IF es = <<>> THEN p ELSE Deliver(OnCallback(p, Head(es)), Tail(es))

\* toggleListening awaits toggle(): a rejected start() lands in its catch
ToggleListeningCatch(p, o) ==
    IF o.outcome = "thrown"
    THEN [p EXCEPT !.error = IF o.error[1] = "" THEN FailedToToggle ELSE o.error[1]]
    ELSE p

\* ------------------------------------------------- what the ends observe
\* An observer at the two ends of a session: queue[c] holds the chunks the
\* frame callback passed to the bridge c that its consumer has not received
\* yet, in the order of the frames; got is the chunk a consumer received in
\* the last step; committed is the text of the final results, in the order
\* the inbound streams delivered them.
Observer(ids) == [queue |-> [c \in ids |-> <<>>], got |-> <<>>, committed |-> ""]

Observing(p) == DOMAIN p = {"queue", "got", "committed"}

\* a queue without its oldest chunk
Rest(q) == IF q = <<>> THEN q ELSE Tail(q)

\* the observer after the step o, taken from the bridges bs and the fields t
Observed(p, o, t, bs) ==
    LET c == t.customStream
    IN  IF o.name = "frame" /\ c # NULL /\ ~bs[c].closed
        THEN LET rs == EnqueueResolves(bs[c], Pcm16(o.frame))
                 q == Append(p.queue[c], Pcm16(o.frame))
             IN  IF rs # <<>>
                 THEN [p EXCEPT !.got = <<rs[1].value>>,
                                !.queue = [@ EXCEPT ![c] = Rest(q)]]
                 ELSE [p EXCEPT !.got = <<>>, !.queue = [@ EXCEPT ![c] = q]]
        ELSE IF o.name = "pull"
        THEN LET rs == NextResolves(bs[o.call], o.call)
             IN  IF rs # <<>> /\ ~rs[1].done
                 THEN [p EXCEPT !.got = <<rs[1].value>>,
                                !.queue = [@ EXCEPT ![o.call] = Rest(@)]]
                 ELSE [p EXCEPT !.got = <<>>]
        ELSE IF o.name = "result" /\ o.outcome = "final"
        THEN [p EXCEPT !.got = <<>>, !.committed = @ \o o.text \o " "]
        ELSE [p EXCEPT !.got = <<>>]

\* An application that keeps the last of onSpeechStart / onSpeechEnd it got.
SpeechListener == [last |-> ""]

Listening(p) == DOMAIN p = {"last"}

Heard(p, es) ==
    LET ks == {k \in 1..Len(es) : es[k].cb \in {"onSpeechStart", "onSpeechEnd"}}
    IN  IF ks = {} THEN p ELSE [p EXCEPT !.last = es[Largest(ks)].cb]

\* The callbacks a step fired have run in the component, when there is one.
Notified ==
    probe' = IF Mounted(probe)
             THEN ToggleListeningCatch(Deliver(probe, emitted'), op')
             ELSE IF Observing(probe)
             THEN Observed(probe, op', this, bridges)
             ELSE IF Listening(probe)
             THEN Heard(probe, emitted')
             ELSE probe

\* the text of the button of the default UI
ButtonText(p) == (IF p.isListening THEN "Stop" ELSE "Start") \o " Recording"

\* the status line of the default UI
StatusText(p) ==
    IF p.isListening
    THEN IF p.isActivelySpeaking THEN "Active Speech Detected"
         ELSE IF p.silenceCountdown \notin {NULL, 0}
         THEN "No Speech Detected"
         ELSE "Waiting for Speech"
    ELSE "Paused"

\* The part of the state the methods of the client read and write.
World ==
    [this |-> this, pending |-> pending, storage |-> storage, bridges |-> bridges,
     live |-> live, late |-> late, handlers |-> handlers, emitted |-> <<>>]

Emit(w, e) == [w EXCEPT !.emitted = Append(@, e)]

Commit(w) ==
    /\ this' = w.this
    /\ pending' = w.pending
    /\ storage' = w.storage
    /\ bridges' = w.bridges
    /\ live' = w.live
    /\ late' = w.late
    /\ handlers' = w.handlers
    /\ emitted' = w.emitted
    /\ GetMinutesUsed(w.storage) <= MaxMinutes

\* ------------------------------------------------------------- timers
\* A timer is identified by the time it is due (timeouts) or was created
\* (the interval); clearing an identity that is not pending does nothing.
ClearShort(pd, id) == [pd EXCEPT !.short = @ \ {id}]

ClearLong(pd, id) == [pd EXCEPT !.long = @ \ {id}]

ClearTick(pd, id) == [pd EXCEPT !.tick = {r \in @ : r.t0 # id}]

\* variant: the short timer is re-armed without clearing the one pending
ResetSilenceTimeoutKeepsOld(w, time) ==
    LET t == w.this
        p2 == [w.pending EXCEPT !.short = @ \cup {time + SILENCE_DURATION}]
        p3 == IF t.maxSilenceTimeout # NULL
              THEN ClearLong(p2, t.maxSilenceTimeout) ELSE p2
        p4 == IF t.countdownInterval # NULL
              THEN ClearTick(p3, t.countdownInterval) ELSE p3
    IN  [w EXCEPT
            !.pending = p4,
            !.this = [t EXCEPT
                !.silenceTimeout = time + SILENCE_DURATION,
                !.maxSilenceTimeout = NULL,
                !.silenceCountdown = IF t.countdownInterval # NULL THEN NULL ELSE @,
                !.countdownInterval = NULL]]

\* variant: the long timer and the interval are forgotten and not cleared
ResetSilenceTimeoutKeepsLong(w, time) ==
    LET t == w.this
        p1 == IF t.silenceTimeout # NULL
              THEN ClearShort(w.pending, t.silenceTimeout) ELSE w.pending
        p2 == [p1 EXCEPT !.short = @ \cup {time + SILENCE_DURATION}]
    IN  [w EXCEPT
            !.pending = p2,
            !.this = [t EXCEPT
                !.silenceTimeout = time + SILENCE_DURATION,
                !.maxSilenceTimeout = NULL,
                !.silenceCountdown = IF t.countdownInterval # NULL THEN NULL ELSE @,
                !.countdownInterval = NULL]]

ResetSilenceTimeout(w, time) ==
    LET t == w.this
        p1 == IF t.silenceTimeout # NULL
              THEN ClearShort(w.pending, t.silenceTimeout) ELSE w.pending
        p2 == [p1 EXCEPT !.short = @ \cup {time + SILENCE_DURATION}]
        p3 == IF t.maxSilenceTimeout # NULL
              THEN ClearLong(p2, t.maxSilenceTimeout) ELSE p2
        p4 == IF t.countdownInterval # NULL
              THEN ClearTick(p3, t.countdownInterval) ELSE p3
    IN  [w EXCEPT
            !.pending = p4,
            !.this = [t EXCEPT
                !.silenceTimeout = time + SILENCE_DURATION,
                !.maxSilenceTimeout = NULL,
                !.silenceCountdown = IF t.countdownInterval # NULL THEN NULL ELSE @,
                !.countdownInterval = NULL]]

HandleSilence(w, time) ==
    LET t == w.this
        t1 == [t EXCEPT !.activeStreaming = FALSE, !.isActivelySpeaking = FALSE]
        w1 == Emit(Emit([w EXCEPT !.this = t1], [cb |-> "onSpeechEnd"]),
                   StateChange(t1.isListening, FALSE, <<>>))
    IN  IF ~t.activeStreaming THEN w
        ELSE IF t1.maxSilenceTimeout # NULL THEN w1
        ELSE [w1 EXCEPT
                !.this = [t1 EXCEPT
                    !.maxSilenceTimeout = time + MaxSilenceDuration,
                    !.countdownInterval = time],
                !.pending = [@ EXCEPT
                    !.long = @ \cup {time + MaxSilenceDuration},
                    !.tick = @ \cup {[t0 |-> time, due |-> time + COUNTDOWN_PERIOD]}]]

\* variant: the callback reports the seconds elapsed, not those remaining
CountdownCallbackCountsUp(w, r, time) ==
    LET elapsed == time - r.t0
        t1 == [w.this EXCEPT !.silenceCountdown = elapsed]
        w1 == Emit([w EXCEPT
                       !.this = t1,
                       !.pending = [@ EXCEPT !.tick =
                           (@ \ {r}) \cup {[r EXCEPT !.due = @ + COUNTDOWN_PERIOD]}]],
                   StateChange(t1.isListening, FALSE, <<elapsed>>))
    IN  IF elapsed >= MaxSilenceDuration
        THEN [w1 EXCEPT
                !.pending = IF t1.countdownInterval # NULL
                            THEN ClearTick(@, t1.countdownInterval) ELSE @,
                !.this = [@ EXCEPT !.countdownInterval = NULL,
                                   !.silenceCountdown = NULL]]
        ELSE w1

\* The setInterval callback of _handleSilence, for the interval r.
CountdownCallback(w, r, time) ==
    LET elapsed == time - r.t0
        remaining == MaxSilenceDuration - elapsed
        t1 == [w.this EXCEPT !.silenceCountdown = remaining]
        w1 == Emit([w EXCEPT
                       !.this = t1,
                       !.pending = [@ EXCEPT !.tick =
                           (@ \ {r}) \cup {[r EXCEPT !.due = @ + COUNTDOWN_PERIOD]}]],
                   StateChange(t1.isListening, FALSE, <<remaining>>))
    IN  IF elapsed >= MaxSilenceDuration
        THEN [w1 EXCEPT
                !.pending = IF t1.countdownInterval # NULL
                            THEN ClearTick(@, t1.countdownInterval) ELSE @,
                !.this = [@ EXCEPT !.countdownInterval = NULL,
                                   !.silenceCountdown = NULL]]
        ELSE w1

\* ---------------------------------------------------------------- stop()
\* variant: the minutes of the session replace the counter
StopUsageOverwrites(t, stg, time) ==
    IF t.startTime # NULL /\ t.startTime # 0
    THEN StoreMinutesUsed(stg, time - t.startTime)
    ELSE stg

StopUsage(t, stg, time) ==
    IF t.startTime # NULL /\ t.startTime # 0
    THEN StoreMinutesUsed(stg, GetMinutesUsed(stg) + (time - t.startTime))
    ELSE stg

StopFields(t) ==
    [t EXCEPT !.customStream = NULL, !.processorNode = NULL, !.sourceNode = NULL,
              !.audioContext = NULL, !.stream = NULL, !.transcribeClient = NULL,
              !.silenceTimeout = NULL, !.maxSilenceTimeout = NULL,
              !.countdownInterval = NULL,
              !.isListening = FALSE, !.isActivelySpeaking = FALSE,
              !.silenceCountdown = NULL, !.activeStreaming = FALSE]

\* variant: stop() clears the two timeouts and leaves the interval running
StopTimersKeepsInterval(t, pd) ==
    LET p1 == IF t.silenceTimeout # NULL THEN ClearShort(pd, t.silenceTimeout) ELSE pd
    IN  IF t.maxSilenceTimeout # NULL THEN ClearLong(p1, t.maxSilenceTimeout) ELSE p1

StopTimers(t, pd) ==
    LET p1 == IF t.silenceTimeout # NULL THEN ClearShort(pd, t.silenceTimeout) ELSE pd
        p2 == IF t.maxSilenceTimeout # NULL THEN ClearLong(p1, t.maxSilenceTimeout) ELSE p1
    IN  IF t.countdownInterval # NULL THEN ClearTick(p2, t.countdownInterval) ELSE p2

StopRelease(t, lv) ==
    [streams |-> lv.streams \ {t.stream},
     graphs  |-> lv.graphs \ {t.processorNode, t.sourceNode, t.audioContext},
     clients |-> lv.clients \ {t.transcribeClient}]

Stop(w, time) ==
    LET t == w.this
    IN  Emit([w EXCEPT
                !.storage = StopUsage(t, @, time),
                !.bridges = IF t.customStream # NULL
                            THEN [@ EXCEPT ![t.customStream] = Close(@)] ELSE @,
                !.live = StopRelease(t, @),
                !.late = IF env.late
                        THEN @ \cup ({t.processorNode} \cap w.handlers \cap w.live.graphs)
                        ELSE @,
                !.pending = StopTimers(t, @),
                !.this = StopFields(t)],
             StateChange(FALSE, FALSE, <<>>))

\* variant: stop() cancels the timers before anything else
StopOrderTimersFirst ==
    <<"timers", "usage", "customStream", "processorNode", "sourceNode", "audioContext",
      "stream", "transcribeClient", "flags", "onStateChange">>

\* The statements of stop(), in the order of the source.
StopOrder ==
    <<"usage", "customStream", "processorNode", "sourceNode", "audioContext",
      "stream", "transcribeClient", "timers", "flags", "onStateChange">>

\* One statement of stop(): a handle that is null is skipped, the others are
\* closed (disconnected, stopped, destroyed) and then nulled.
StopStep(w, step, time) ==
    LET t == w.this
    IN  CASE step = "usage" -> [w EXCEPT !.storage = StopUsage(t, @, time)]
          [] step = "customStream" ->
                IF t.customStream = NULL THEN w
                ELSE [w EXCEPT !.bridges = [@ EXCEPT ![t.customStream] = Close(@)],
                               !.this = [@ EXCEPT !.customStream = NULL]]
          [] step = "processorNode" ->
                IF t.processorNode = NULL THEN w
                ELSE [w EXCEPT
                        !.live = [@ EXCEPT !.graphs = @ \ {t.processorNode}],
                        !.late = IF env.late
                                 THEN @ \cup ({t.processorNode} \cap w.handlers
                                                  \cap w.live.graphs)
                                 ELSE @,
                        !.this = [@ EXCEPT !.processorNode = NULL]]
          [] step = "sourceNode" ->
                IF t.sourceNode = NULL THEN w
                ELSE [w EXCEPT !.live = [@ EXCEPT !.graphs = @ \ {t.sourceNode}],
                               !.this = [@ EXCEPT !.sourceNode = NULL]]
          [] step = "audioContext" ->
                IF t.audioContext = NULL THEN w
                ELSE [w EXCEPT !.live = [@ EXCEPT !.graphs = @ \ {t.audioContext}],
                               !.this = [@ EXCEPT !.audioContext = NULL]]
          [] step = "stream" ->
                IF t.stream = NULL THEN w
                ELSE [w EXCEPT !.live = [@ EXCEPT !.streams = @ \ {t.stream}],
                               !.this = [@ EXCEPT !.stream = NULL]]
          [] step = "transcribeClient" ->
                IF t.transcribeClient = NULL THEN w
                ELSE [w EXCEPT !.live = [@ EXCEPT !.clients = @ \ {t.transcribeClient}],
                               !.this = [@ EXCEPT !.transcribeClient = NULL]]
          [] step = "timers" ->
                [w EXCEPT !.pending = StopTimers(t, @),
                          !.this = [@ EXCEPT !.silenceTimeout = NULL,
                                             !.maxSilenceTimeout = NULL,
                                             !.countdownInterval = NULL]]
          [] step = "flags" ->
                [w EXCEPT !.this = [@ EXCEPT !.isListening = FALSE,
                                             !.isActivelySpeaking = FALSE,
                                             !.silenceCountdown = NULL,
                                             !.activeStreaming = FALSE]]
          [] step = "onStateChange" -> Emit(w, StateChange(FALSE, FALSE, <<>>))

\* stop() after its first k statements
RECURSIVE StopPrefix(_, _, _)
StopPrefix(w, k, time) ==
    IF k = 0 THEN w ELSE StopStep(StopPrefix(w, k - 1, time), StopOrder[k], time)

\* The statements of stop() that sit in a try/catch of their own; each is
\* named after the handle it closes and nulls.
CleanupSteps ==
    {"customStream", "processorNode", "sourceNode", "audioContext", "stream",
     "transcribeClient"}

\* variant: a cleanup call that throws leaves its handle as it was
CleanupStepKeepsHandle(w, step, time, failed) ==
    IF step \in failed THEN w ELSE StopStep(w, step, time)

\* A statement of stop() when the cleanup calls in `failed` throw: the catch
\* logs, and the assignment of null after it runs all the same.
CleanupStep(w, step, time, failed) ==
    IF step \in failed /\ w.this[step] # NULL
    THEN [w EXCEPT !.this = [@ EXCEPT ![step] = NULL]]
    ELSE StopStep(w, step, time)

RECURSIVE StopFailingPrefix(_, _, _, _)
StopFailingPrefix(w, k, time, failed) ==
    IF k = 0 THEN w
    ELSE CleanupStep(StopFailingPrefix(w, k - 1, time, failed), StopOrder[k], time,
                     failed)

\* stop() when the cleanup calls in `failed` throw
StopFailing(w, time, failed) == StopFailingPrefix(w, Len(StopOrder), time, failed)

\* variant: a catch clause that reports and resets the flags, without stop()
StartCatchWithoutStop(w, msg, time) ==
    [Emit(w, OnError(StartErrorMessage(msg))) EXCEPT
        !.this = [@ EXCEPT !.isListening = FALSE, !.startTime = NULL]]

\* The catch clause of start().
StartCatch(w, msg, time) ==
    Stop([Emit(w, OnError(StartErrorMessage(msg))) EXCEPT
             !.this = [@ EXCEPT !.isListening = FALSE, !.startTime = NULL]],
         time)

\* ------------------------------------------------- the per-frame callback
ProcessAudioData(w, inputData) ==
    IF w.this.customStream = NULL THEN w
    ELSE [w EXCEPT !.bridges = [@ EXCEPT ![w.this.customStream] =
                                    Enqueue(@, Pcm16(inputData))]]

\* variant: every speech frame is taken for the start of an episode
OnAudioProcessAlwaysStarts(w, inputData, time) ==
    LET t == w.this
        hasVoice == DetectVoiceActivity(inputData, VAD_THRESHOLD)
        started == ResetSilenceTimeout(
                       [w EXCEPT !.this = [t EXCEPT !.activeStreaming = TRUE,
                                                    !.isActivelySpeaking = TRUE]],
                       time)
        w1 == IF hasVoice
              THEN Emit(Emit(started, [cb |-> "onSpeechStart"]),
                        StateChange(started.this.isListening, TRUE, <<>>))
              ELSE w
    IN  IF w1.this.customStream # NULL THEN ProcessAudioData(w1, inputData) ELSE w1

OnAudioProcess(w, inputData, time) ==
    LET t == w.this
        hasVoice == DetectVoiceActivity(inputData, VAD_THRESHOLD)
        started == ResetSilenceTimeout(
                       [w EXCEPT !.this = [t EXCEPT !.activeStreaming = TRUE,
                                                    !.isActivelySpeaking = TRUE]],
                       time)
        w1 == IF hasVoice /\ ~t.activeStreaming
              THEN Emit(Emit(started, [cb |-> "onSpeechStart"]),
                        StateChange(started.this.isListening, TRUE, <<>>))
              ELSE IF hasVoice THEN ResetSilenceTimeout(w, time)
              ELSE w
    IN  IF w1.this.customStream # NULL THEN ProcessAudioData(w1, inputData) ELSE w1

\* ------------------------------------------- the result-consumption task
\* variant: a final result replaces the committed text
ProcessResultOverwrites(w, result) ==
    LET t == w.this
        text == AltTranscript(result)
        t1 == [t EXCEPT !.transcript = text \o " "]
    IN  IF result.IsPartial
        THEN Emit(w, OnTranscript(t.transcript, text))
        ELSE Emit([w EXCEPT !.this = t1], OnTranscript(t1.transcript, ""))

\* variant: a partial result is committed like a final one
ProcessResultCommitsPartial(w, result) ==
    LET t == w.this
        text == AltTranscript(result)
        t1 == [t EXCEPT !.transcript = @ \o text \o " "]
    IN  IF result.IsPartial
        THEN Emit([w EXCEPT !.this = t1], OnTranscript(t.transcript, text))
        ELSE Emit([w EXCEPT !.this = t1], OnTranscript(t1.transcript, ""))

ProcessResult(w, result) ==
    LET t == w.this
        text == AltTranscript(result)
        t1 == [t EXCEPT !.transcript = @ \o text \o " "]
    IN  IF result.IsPartial
        THEN Emit(w, OnTranscript(t.transcript, text))
        ELSE Emit([w EXCEPT !.this = t1], OnTranscript(t1.transcript, ""))

\* variant: the catch clause reports every error, a cancellation included
ResultErrorReportsAll(w, error) ==
    Emit(w, OnError("Transcription error: " \o
                    (IF error.message = "" THEN "Unknown error"
                     ELSE error.message)))

\* error.name !== 'AbortError' => onError('Transcription error: ' + message)
ResultError(w, error) ==
    IF error.name # "AbortError"
    THEN Emit(w, OnError("Transcription error: " \o
                         (IF error.message = "" THEN "Unknown error"
                          ELSE error.message)))
    ELSE w

\* --------------------------------------------------------------- start()
Op(name, call) ==
    [name |-> name, call |-> call, outcome |-> "", error |-> <<>>,
     credentials |-> {}, hint |-> <<>>, text |-> "", frame |-> <<>>]

Unsupported == "Your browser doesn't support microphone access or Web Audio API."

\* navigator.mediaDevices.getUserMedia resolved: this.stream is assigned
AcquireStream(w, i) ==
    [w EXCEPT !.this = [@ EXCEPT !.stream = i],
              !.live = [@ EXCEPT !.streams = @ \cup {i}]]

\* the audio context, the source node and the script processor, connected
BuildGraph(w, i) ==
    [w EXCEPT !.this = [@ EXCEPT !.audioContext = i, !.sourceNode = i,
                                 !.processorNode = i],
              !.live = [@ EXCEPT !.graphs = @ \cup {i}]]

\* From the credentials to the call of send(): the client, the bridge and the
\* frame callback.  Assigning onaudioprocess of a null processorNode throws.
OpenSession(w, i) ==
    LET t == w.this
        w1 == [w EXCEPT !.this = [t EXCEPT !.transcribeClient = i, !.customStream = i],
                        !.live = [@ EXCEPT !.clients = @ \cup {i}],
                        !.bridges = [@ EXCEPT ![i] = NewBridge]]
    IN  IF t.processorNode = NULL
        THEN [w |-> w1, error |-> <<"Cannot set properties of null">>]
        ELSE [w |-> [w1 EXCEPT !.handlers = @ \cup {t.processorNode}],
              error |-> <<>>]

\* variant: the state update is sent and the flag is not set
ActivateWithoutFlag(w, i, time) ==
    Emit([w EXCEPT !.this = [@ EXCEPT !.transcribeStream = i, !.startTime = time]],
         StateChange(TRUE, FALSE, <<>>))

\* send() resolved: the consumption task starts and the session is Active
Activate(w, i, time) ==
    Emit([w EXCEPT !.this = [@ EXCEPT !.transcribeStream = i, !.startTime = time,
                                      !.isListening = TRUE]],
         StateChange(TRUE, FALSE, <<>>))

\* calls of start() that have not returned yet
InFlight == {j \in Ids : calls[j] \notin {"none", "returned"}}

FreeCall(i) ==
    /\ i <= env.starts
    /\ Cardinality(InFlight) < env.overlap
    /\ calls[i] = "none"
    /\ \A j \in 1..(i - 1) : calls[j] # "none"

Fails(i, w, msg, o) ==
    /\ Commit(StartCatch(w, msg, now))
    /\ calls' = [calls EXCEPT ![i] = "returned"]
    /\ op' = [o EXCEPT !.outcome = "thrown", !.error = <<msg>>]
    /\ Notified /\ UNCHANGED <<env, cfg, now, sent, results, resetHanded>>

\* A transport that keeps up has pulled every chunk of the bridge it was
\* given and waits in next() for the following one.
Drained(b, r) ==
    IF b.closed THEN [b EXCEPT !.buffer = <<>>]
    ELSE [b EXCEPT !.buffer = <<>>, !.listeners = <<r>>]

Transport(w) ==
    IF env.eager /\ w.this.customStream # NULL
    THEN [w EXCEPT !.bridges = [@ EXCEPT ![w.this.customStream] =
                                    Drained(@, w.this.customStream)]]
    ELSE w

Sends(i, r, o) ==
    IF r.error = <<>>
    THEN /\ Commit(Transport(r.w))
         /\ calls' = [calls EXCEPT ![i] = "send"]
         /\ sent' = sent \cup {i}
         /\ op' = [o EXCEPT !.outcome = "send"]
         /\ Notified /\ UNCHANGED <<env, cfg, now, results, resetHanded>>
    ELSE Fails(i, r.w, r.error[1], o)

\* variant: start() without the isListening guard tears the session down
StartBodyWithoutGuard(name) ==
    IF this.isListening
    THEN /\ Commit(Stop(World, now))
         /\ op' = [Op(name, NULL) EXCEPT !.outcome = "true"]
         /\ Notified /\ UNCHANGED <<env, cfg, now, calls, sent, results, resetHanded>>
    ELSE /\ IF ~cfg.browserSupported
            THEN /\ op' = [Op(name, NULL) EXCEPT !.outcome = "false"]
                 /\ emitted' = <<OnError(Unsupported)>>
                 /\ calls' = calls
            ELSE /\ \E i \in Ids :
                       /\ FreeCall(i)
                       /\ calls' = [calls EXCEPT ![i] = "getUserMedia"]
                       /\ op' = [Op(name, i) EXCEPT !.outcome = "pending"]
                 /\ emitted' = <<>>
         /\ Notified /\ UNCHANGED <<env, cfg, now, this, storage, live, handlers, late, bridges,
                        sent, results, pending, resetHanded>>

\* variant: start() without the test of browserSupported
StartBodyWithoutProbe(name) ==
    /\ IF this.isListening
       THEN /\ op' = [Op(name, NULL) EXCEPT !.outcome = "true"]
            /\ calls' = calls
       ELSE \E i \in Ids :
               /\ FreeCall(i)
               /\ calls' = [calls EXCEPT ![i] = "getUserMedia"]
               /\ op' = [Op(name, i) EXCEPT !.outcome = "pending"]
    /\ emitted' = <<>>
    /\ Notified /\ UNCHANGED <<env, cfg, now, this, storage, live, handlers, late, bridges, sent,
                   results, pending, resetHanded>>

StartBody(name) ==
    /\ IF this.isListening
       THEN /\ op' = [Op(name, NULL) EXCEPT !.outcome = "true"]
            /\ emitted' = <<>>
            /\ calls' = calls
       ELSE IF ~cfg.browserSupported
       THEN /\ op' = [Op(name, NULL) EXCEPT !.outcome = "false"]
            /\ emitted' = <<OnError(Unsupported)>>
            /\ calls' = calls
       ELSE /\ \E i \in Ids :
                  /\ FreeCall(i)
                  /\ calls' = [calls EXCEPT ![i] = "getUserMedia"]
                  /\ op' = [Op(name, i) EXCEPT !.outcome = "pending"]
            /\ emitted' = <<>>
    /\ Notified /\ UNCHANGED <<env, cfg, now, this, storage, live, handlers, late, bridges, sent,
                   results, pending, resetHanded>>

StopBody(name) ==
    /\ Commit(Stop(World, now))
    /\ op' = [Op(name, NULL) EXCEPT !.outcome = "true"]
    /\ Notified /\ UNCHANGED <<env, cfg, now, calls, sent, results, resetHanded>>

\* stop(), with any of the cleanup calls it makes throwing: a call is made
\* for each handle that is not null.  probe keeps which ones threw.
StopCallFailing ==
    \E failed \in SUBSET {step \in CleanupSteps : this[step] # NULL} :
        /\ Commit(StopFailing(World, now, failed))
        /\ op' = [Op("stop", NULL) EXCEPT !.outcome = "true", !.hint = <<failed>>]
        /\ probe' = [probe EXCEPT !.failed = @ \cup failed]
        /\ UNCHANGED <<env, cfg, now, calls, sent, results, resetHanded>>

Start == StartBody("start")

StopCall == StopBody("stop")

\* variant: toggle() with its two branches exchanged
ToggleInverted ==
    IF this.isListening THEN StartBody("toggle") ELSE StopBody("toggle")

Toggle == IF this.isListening THEN StopBody("toggle") ELSE StartBody("toggle")

GetUserMediaReject(i) ==
    /\ calls[i] = "getUserMedia"
    /\ \E msg \in CaptureErrors : Fails(i, World, msg, Op("getUserMedia.reject", i))

AudioGraphFails(i) ==
    /\ calls[i] = "getUserMedia"
    /\ Fails(i, AcquireStream(World, i), GraphError, Op("audioGraph.throw", i))

GetUserMediaResolve(i) ==
    /\ calls[i] = "getUserMedia"
    /\ LET w0 == BuildGraph(AcquireStream(World, i), i)
           w == [w0 EXCEPT !.storage = AfterLoad(@)]
           o == Op("getUserMedia.resolve", i)
           usable == UsableCredentials(storage, now)
       IN  IF ~cfg.hasProvider
           THEN Fails(i, w0, "No credentials provider available", o)
           ELSE IF usable # {}
           THEN Sends(i, OpenSession(w, i), [o EXCEPT !.credentials = usable])
           ELSE /\ Commit(w)
                /\ calls' = [calls EXCEPT ![i] = "credentialsProvider"]
                /\ op' = [o EXCEPT !.outcome = "provider",
                                   !.hint = <<GetMinutesUsed(storage)>>]
                /\ Notified /\ UNCHANGED <<env, cfg, now, sent, results, resetHanded>>

\* variant: the fetched credential is used and not persisted
ProviderResolveForgets(i) ==
    /\ calls[i] = "credentialsProvider"
    /\ \E ttl \in env.ttls :
          LET creds == [key |-> i, expiration |-> now + ttl]
          IN  Sends(i, OpenSession(World, i),
                    [Op("provider.resolve", i) EXCEPT !.credentials = {creds}])

ProviderResolve(i) ==
    /\ calls[i] = "credentialsProvider"
    /\ \E ttl \in env.ttls :
          LET creds == [key |-> i, expiration |-> now + ttl]
              w == [World EXCEPT !.storage = StoreCredentials(@, creds)]
          IN  Sends(i, OpenSession(w, i),
                    [Op("provider.resolve", i) EXCEPT !.credentials = {creds}])

\* variant: storeCredentials runs before the result is tested, and clears
\* the entry when handed null
ProviderNullClearsEntry(i) ==
    /\ calls[i] = "credentialsProvider"
    /\ Fails(i, [World EXCEPT !.storage = [@ EXCEPT !.creds = {}]],
             "No credentials available", Op("provider.null", i))

ProviderNull(i) ==
    /\ calls[i] = "credentialsProvider"
    /\ Fails(i, World, "No credentials available", Op("provider.null", i))

ProviderReject(i) ==
    /\ calls[i] = "credentialsProvider"
    /\ Fails(i, World, ProviderError, Op("provider.reject", i))

SendResolve(i) ==
    /\ calls[i] = "send"
    /\ Commit(Activate(World, i, now))
    /\ calls' = [calls EXCEPT ![i] = "returned"]
    /\ results' = [results EXCEPT ![i] = "open"]
    /\ op' = [Op("send.resolve", i) EXCEPT !.outcome = "true"]
    /\ Notified /\ UNCHANGED <<env, cfg, now, sent, resetHanded>>

SendReject(i) ==
    /\ calls[i] = "send"
    /\ Fails(i, World, SendError, Op("send.reject", i))

\* ------------------------------------------------------ the environment
\* The processor node n dispatches an audio event.  A node delivers events
\* while it is connected, and at most one more that was already queued when
\* stop() released it.
AudioFrame(n) ==
    /\ n \in handlers
    /\ n \in live.graphs \cup late
    /\ \E f \in Frames :
          /\ this.customStream # NULL =>
                 \/ Len(bridges[this.customStream].buffer) < MaxQueue
                 \/ Len(bridges[this.customStream].listeners) > 0
                 \/ bridges[this.customStream].closed
          /\ Commit(Transport(OnAudioProcess([World EXCEPT !.late = @ \ {n}], f, now)))
          /\ op' = [Op("frame", n) EXCEPT
                       !.outcome = IF DetectVoiceActivity(f, VAD_THRESHOLD)
                                   THEN "speech" ELSE "silence",
                       !.hint = IF this.maxSilenceTimeout # NULL
                                THEN <<this.maxSilenceTimeout>> ELSE <<>>,
                       !.frame = f]
    /\ Notified /\ UNCHANGED <<env, cfg, now, calls, sent, results, resetHanded>>

ShortTimerFires ==
    /\ now \in pending.short
    /\ Commit(HandleSilence([World EXCEPT !.pending = ClearShort(@, now)], now))
    /\ op' = Op("silenceTimeout", NULL)
    /\ Notified /\ UNCHANGED <<env, cfg, now, calls, sent, results, resetHanded>>

LongTimerFires ==
    /\ now \in pending.long
    /\ Commit(Stop([World EXCEPT !.pending = ClearLong(@, now)], now))
    /\ op' = Op("maxSilenceTimeout", NULL)
    /\ Notified /\ UNCHANGED <<env, cfg, now, calls, sent, results, resetHanded>>

CountdownFires ==
    /\ \E r \in pending.tick :
          /\ r.due = now
          /\ Commit(CountdownCallback(World, r, now))
    /\ op' = Op("countdownInterval", NULL)
    /\ Notified /\ UNCHANGED <<env, cfg, now, calls, sent, results, resetHanded>>

TimerDue ==
    \/ now \in pending.short
    \/ now \in pending.long
    \/ \E r \in pending.tick : r.due = now

\* Time passes; a timer fires when it is due.
Tick ==
    /\ now < MaxTime
    /\ ~TimerDue
    /\ now' = now + 1
    /\ op' = Op("tick", NULL)
    /\ emitted' = <<>>
    /\ Notified /\ UNCHANGED <<env, cfg, this, storage, calls, live, handlers, late, bridges, sent,
                   results, pending, resetHanded>>

ResultEvent(i) ==
    /\ results[i] = "open"
    /\ \E result \in ResultEvents :
          /\ ~result.IsPartial =>
                 Len(this.transcript) + Len(AltTranscript(result)) + 1 <= MaxLen
          /\ Commit(ProcessResult(World, result))
          /\ op' = [Op("result", i) EXCEPT
                       !.outcome = IF result.IsPartial THEN "partial" ELSE "final",
                       !.text = AltTranscript(result)]
    /\ resetHanded' = TRUE
    /\ Notified /\ UNCHANGED <<env, cfg, now, calls, sent, results>>

ResultStreamError(i) ==
    /\ results[i] = "open"
    /\ \E error \in StreamErrors :
          /\ Commit(ResultError(World, error))
          /\ op' = [Op("result.error", i) EXCEPT !.outcome = error.name,
                                                 !.error = <<error.message>>]
    /\ results' = [results EXCEPT ![i] = "closed"]
    /\ Notified /\ UNCHANGED <<env, cfg, now, calls, sent, resetHanded>>

ResultStreamEnd(i) ==
    /\ results[i] = "open"
    /\ results' = [results EXCEPT ![i] = "closed"]
    /\ op' = Op("result.end", i)
    /\ emitted' = <<>>
    /\ Notified /\ UNCHANGED <<env, cfg, now, this, storage, calls, live, handlers, late, bridges,
                   sent, pending, resetHanded>>

\* The observer invokes a resetTranscript closure it was handed.
ResetTranscript ==
    /\ resetHanded
    /\ this' = [this EXCEPT !.transcript = ""]
    /\ op' = Op("resetTranscript", NULL)
    /\ emitted' = <<>>
    /\ Notified /\ UNCHANGED <<env, cfg, now, storage, calls, live, handlers, late, bridges, sent,
                   results, pending, resetHanded>>

\* The transport pulls the next chunk of the AudioStream it was given.
SdkPull(i) ==
    /\ i \in sent
    /\ Len(bridges[i].listeners) = 0
    /\ ~(bridges[i].closed /\ Len(bridges[i].buffer) = 0)
    /\ bridges' = [bridges EXCEPT ![i] = NextItem(@, i)]
    /\ op' = Op("pull", i)
    /\ emitted' = <<>>
    /\ Notified /\ UNCHANGED <<env, cfg, now, this, storage, calls, live, handlers, late, sent,
                   results, pending, resetHanded>>

InitThis ==
    [isListening |-> FALSE, isActivelySpeaking |-> FALSE, silenceCountdown |-> NULL,
     audioContext |-> NULL, maxSilenceTimeout |-> NULL, countdownInterval |-> NULL,
     sourceNode |-> NULL, processorNode |-> NULL, transcribeClient |-> NULL,
     transcript |-> "", stream |-> NULL, startTime |-> NULL,
     silenceTimeout |-> NULL, activeStreaming |-> FALSE, customStream |-> NULL,
     transcribeStream |-> NULL]

InitWith(e) ==
    /\ env = e
    /\ cfg \in [browserSupported : BOOLEAN, hasProvider : BOOLEAN]
    /\ now = 1
    /\ this = InitThis
    /\ storage \in e.stores
    /\ probe \in e.probes
    /\ calls = [i \in Ids |-> "none"]
    /\ live = [streams |-> {}, graphs |-> {}, clients |-> {}]
    /\ handlers = {}
    /\ late = {}
    /\ bridges = [i \in Ids |-> NewBridge]
    /\ sent = {}
    /\ results = [i \in Ids |-> "none"]
    /\ pending = [short |-> {}, long |-> {}, tick |-> {}]
    /\ resetHanded = FALSE
    /\ op = Op("new", NULL)
    /\ emitted = <<>>

StartSteps ==
    \/ \E i \in Ids : GetUserMediaReject(i)
    \/ \E i \in Ids : AudioGraphFails(i)
    \/ \E i \in Ids : GetUserMediaResolve(i)
    \/ \E i \in Ids : ProviderResolve(i)
    \/ \E i \in Ids : ProviderNull(i)
    \/ \E i \in Ids : ProviderReject(i)
    \/ \E i \in Ids : SendResolve(i)
    \/ \E i \in Ids : SendReject(i)

\* The session: calls, audio frames and timers, with a transport that keeps
\* up.  The result stream is left out: its events read and write
\* this.transcript only, which nothing here reads.
Init ==
    InitWith([starts |-> MaxStarts, overlap |-> MaxStarts,
              ttls |-> LongTTL, late |-> FALSE, eager |-> TRUE,
              stores |-> {EmptyStore},
              probes |-> {<<>>}])

Next ==
    \/ Start
    \/ StopCall
    \/ Toggle
    \/ StartSteps
    \/ \E n \in Ids : AudioFrame(n)
    \/ ShortTimerFires
    \/ LongTimerFires
    \/ CountdownFires
    \/ Tick

Spec == Init /\ [][Next]_vars

\* The same with a transport that pulls when it pleases, so that chunks wait
\* in the bridge.
InitBridge ==
    InitWith([starts |-> MaxBridgeStarts, overlap |-> MaxBridgeStarts,
              ttls |-> LongTTL, late |-> FALSE, eager |-> FALSE,
              stores |-> {EmptyStore},
              probes |-> {<<>>}])

NextBridge ==
    \/ Start
    \/ StopCall
    \/ StartSteps
    \/ \E n \in Ids : AudioFrame(n)
    \/ ShortTimerFires
    \/ LongTimerFires
    \/ CountdownFires
    \/ Tick
    \/ \E i \in Ids : SdkPull(i)

SpecBridge == InitBridge /\ [][NextBridge]_vars

\* The result-consumption task: calls and the events of the inbound streams.
\* Time stands still; frames and timers do not touch this.transcript.
InitResults ==
    InitWith([starts |-> MaxResultStarts, overlap |-> MaxResultStarts,
              ttls |-> LongTTL, late |-> FALSE, eager |-> TRUE,
              stores |-> {EmptyStore},
              probes |-> {<<>>}])

NextResults ==
    \/ Start
    \/ StopCall
    \/ StartSteps
    \/ \E i \in Ids : ResultEvent(i)
    \/ \E i \in Ids : ResultStreamError(i)
    \/ \E i \in Ids : ResultStreamEnd(i)
    \/ ResetTranscript

SpecResults == InitResults /\ [][NextResults]_vars

\* The credential cache: calls and the passing of time, from a store that may
\* hold the credentials an earlier page persisted.
StoredBefore == {{}} \cup {{[key |-> 0, expiration |-> e]} : e \in {1, 2}}

StoresBefore == {Store(c, m) : c \in StoredBefore, m \in {NULL, 2}}

InitCreds ==
    InitWith([starts |-> MaxCredStarts, overlap |-> MaxCredStarts,
              ttls |-> CredTTLs, late |-> FALSE, eager |-> TRUE,
              stores |-> StoresBefore,
              probes |-> {<<>>}])

NextCreds ==
    \/ Start
    \/ StopCall
    \/ StartSteps
    \/ Tick

SpecCreds == InitCreds /\ [][NextCreds]_vars

\* Cycles of start() and stop(), each start() called after the one before it
\* has returned, with credentials that expire at once or later.
InitCycles ==
    InitWith([starts |-> MaxCycles, overlap |-> 1, ttls |-> CredTTLs,
              late |-> FALSE, eager |-> TRUE, stores |-> {EmptyStore},
              probes |-> {<<>>}])

NextCycles ==
    \/ Start
    \/ StopCall
    \/ StartSteps
    \/ Tick

SpecCycles == InitCycles /\ [][NextCycles]_vars

\* Cycles on a platform without localStorage, or with an entry under
\* STORAGE_KEY that JSON.parse rejects.
StoresDegraded ==
    {NoStore, CorruptStore(NULL), CorruptStore(2), Store({}, 2),
     Store({[key |-> 0, expiration |-> 2]}, NULL)}

InitStore ==
    InitWith([starts |-> MaxStoreStarts, overlap |-> 1,
              ttls |-> LongTTL, late |-> FALSE, eager |-> TRUE,
              stores |-> StoresDegraded,
              probes |-> {<<>>}])

NextStore ==
    \/ Start
    \/ StopCall
    \/ StartSteps
    \/ Tick

SpecStore == InitStore /\ [][NextStore]_vars

\* _detectVoiceActivity taken alone: a frame and a threshold, then the call.
\* Samples are in thousandths of full scale, as the threshold is; a
\* threshold of 0 cannot be configured (options.vadThreshold || 0.02).
Samples == {-50, -20, 0, 10, 20, 50}

Thresholds == {-10, 10, VAD_THRESHOLD, 50}

RECURSIVE FramesUpTo(_)
FramesUpTo(n) ==
    IF n = 0 THEN {<<>>}
    ELSE LET shorter == FramesUpTo(n - 1)
         IN  shorter \cup {Append(f, x) : f \in shorter, x \in Samples}

VadProbes ==
    {[frame |-> f, threshold |-> t, result |-> <<>>] :
        f \in FramesUpTo(MaxFrameLen), t \in Thresholds}

InitVad ==
    InitWith([starts |-> MaxStarts, overlap |-> MaxStarts,
              ttls |-> LongTTL, late |-> FALSE, eager |-> TRUE,
              stores |-> {EmptyStore},
              probes |-> VadProbes])

Classify ==
    /\ probe.result = <<>>
    /\ probe' = [probe EXCEPT
                    !.result = <<DetectVoiceActivity(probe.frame, probe.threshold)>>]
    /\ op' = Op("classify", NULL)
    /\ emitted' = <<>>
    /\ UNCHANGED <<env, cfg, now, this, storage, calls, live, handlers, late,
                   bridges, sent, results, pending, resetHanded>>

NextVad == Classify

SpecVad == InitVad /\ [][NextVad]_vars

\* The default UI of a mounted component over the session: every call of the
\* client comes from the button or from the cleanup of the mount effect, and
\* the button is not pressed while a start() is suspended.
InitReact ==
    /\ InitWith([starts |-> MaxStarts, overlap |-> 1,
                 ttls |-> LongTTL, late |-> FALSE, eager |-> TRUE,
                 stores |-> {EmptyStore},
                 probes |-> {NewComponent(b) : b \in BOOLEAN}])
    /\ probe.browserSupported = cfg.browserSupported

\* onClick={() => toggleListening()}; the button exists in a supported browser
Click ==
    /\ Mounted(probe)
    /\ probe.browserSupported
    /\ Toggle

\* the cleanup of the mount effect: stop() when getState().isListening
Unmount ==
    /\ Mounted(probe)
    /\ Commit(IF this.isListening THEN Stop(World, now) ELSE World)
    /\ op' = Op("unmount", NULL)
    /\ probe' = [Deliver(probe, emitted') EXCEPT !.mounted = FALSE]
    /\ UNCHANGED <<env, cfg, now, calls, sent, results, resetHanded>>

NextReact ==
    \/ Click
    \/ Unmount
    \/ StartSteps
    \/ \E n \in Ids : AudioFrame(n)
    \/ ShortTimerFires
    \/ LongTimerFires
    \/ CountdownFires
    \/ Tick

SpecReact == InitReact /\ [][NextReact]_vars

\* The ReadableStream taken alone: a producer, a consumer that may ask again
\* before it was answered, and close().  The k-th call of enqueue passes the
\* chunk k, and the k-th call of next() is the request k.
StreamProbe ==
    [trace |-> <<>>, enqueued |-> 0, accepted |-> <<>>, requests |-> <<>>, closes |-> 0]

InitStream ==
    InitWith([starts |-> MaxStarts, overlap |-> MaxStarts,
              ttls |-> LongTTL, late |-> FALSE, eager |-> FALSE,
              stores |-> {EmptyStore},
              probes |-> {StreamProbe}])

\* the requests after the resolutions rs were handed out
RECURSIVE Resolve(_, _)
Resolve(requests, rs) ==
    IF rs = <<>> THEN requests
    ELSE Resolve([requests EXCEPT ![Head(rs).to] = <<Head(rs)>>], Tail(rs))

StreamStep(name, b, p) ==
    /\ bridges' = [bridges EXCEPT ![1] = b]
    /\ probe' = [p EXCEPT !.trace = Append(@, name)]
    /\ op' = Op(name, NULL)
    /\ emitted' = <<>>
    /\ UNCHANGED <<env, cfg, now, this, storage, calls, live, handlers, late, sent,
                   results, pending, resetHanded>>

StreamEnqueue ==
    /\ probe.enqueued < MaxItems
    /\ LET chunk == probe.enqueued + 1
           b == bridges[1]
       IN  StreamStep("enqueue", Enqueue(b, chunk),
                      [probe EXCEPT
                          !.enqueued = chunk,
                          !.accepted = IF b.closed THEN @ ELSE Append(@, chunk),
                          !.requests = Resolve(@, EnqueueResolves(b, chunk))])

StreamClose ==
    /\ probe.closes < MaxCloses
    /\ LET b == bridges[1]
       IN  StreamStep("close", Close(b),
                      [probe EXCEPT !.closes = @ + 1,
                                    !.requests = Resolve(@, CloseResolves(b))])

StreamNext ==
    /\ Len(probe.requests) < MaxPulls
    /\ LET r == Len(probe.requests) + 1
           b == bridges[1]
       IN  StreamStep("next", NextItem(b, r),
                      [probe EXCEPT
                          !.requests = Resolve(Append(@, <<>>), NextResolves(b, r))])

NextStream ==
    \/ StreamEnqueue
    \/ StreamClose
    \/ StreamNext

SpecStream == InitStream /\ [][NextStream]_vars

\* One session after the other, with frames and timers: stop() is called
\* with every handle held and with timers pending, and no second start()
\* runs while one is suspended.
InitStop ==
    InitWith([starts |-> MaxStarts, overlap |-> 1,
              ttls |-> LongTTL, late |-> FALSE, eager |-> TRUE,
              stores |-> {EmptyStore},
              probes |-> {<<>>}])

NextStop ==
    \/ Start
    \/ StopCall
    \/ StartSteps
    \/ \E n \in Ids : AudioFrame(n)
    \/ ShortTimerFires
    \/ LongTimerFires
    \/ CountdownFires
    \/ Tick

SpecStop == InitStop /\ [][NextStop]_vars

\* One session after the other, where the cleanup calls of stop() may throw.
\* A behaviour is followed up to the first stop() in which one throws.
InitCleanup ==
    InitWith([starts |-> MaxStarts, overlap |-> 1,
              ttls |-> LongTTL, late |-> FALSE, eager |-> TRUE,
              stores |-> {EmptyStore},
              probes |-> {[failed |-> {}]}])

Intact == probe.failed = {}

NextCleanup ==
    \/ Intact /\ Start
    \/ Intact /\ StopCallFailing
    \/ Intact /\ StartSteps
    \/ Intact /\ \E n \in Ids : AudioFrame(n)
    \/ Intact /\ ShortTimerFires
    \/ Intact /\ LongTimerFires
    \/ Intact /\ CountdownFires
    \/ Intact /\ Tick

SpecCleanup == InitCleanup /\ [][NextCleanup]_vars

\* One session from end to end: frames in, chunks out to a transport that
\* pulls when it pleases, result events in, callbacks out, with the timers
\* running; the session ends when the long timer stops it.
InitOrder ==
    InitWith([starts |-> MaxBridgeStarts, overlap |-> 1,
              ttls |-> LongTTL, late |-> FALSE, eager |-> FALSE,
              stores |-> {EmptyStore},
              probes |-> {Observer(Ids)}])

\* no start() was called yet
Unstarted == \A i \in Ids : calls[i] = "none"

NextOrder ==
    \/ Unstarted /\ Start
    \/ StartSteps
    \/ \E n \in Ids : AudioFrame(n)
    \/ ShortTimerFires
    \/ LongTimerFires
    \/ CountdownFires
    \/ Tick
    \/ \E i \in Ids : SdkPull(i)
    \/ \E i \in Ids : ResultEvent(i)
    \/ \E i \in Ids : ResultStreamEnd(i)

SpecOrder == InitOrder /\ [][NextOrder]_vars

\* Calls of start() and toggle() made while earlier ones have not returned.
InitOverlap ==
    InitWith([starts |-> MaxOverlap, overlap |-> MaxOverlap,
              ttls |-> LongTTL, late |-> FALSE, eager |-> TRUE,
              stores |-> {EmptyStore},
              probes |-> {<<>>}])

NextOverlap ==
    \/ Start
    \/ StopCall
    \/ Toggle
    \/ StartSteps
    \/ Tick

SpecOverlap == InitOverlap /\ [][NextOverlap]_vars

\* Sessions one after the other, with frames and timers, heard by an
\* application that follows the speech callbacks.
InitSpeech ==
    InitWith([starts |-> MaxCycles, overlap |-> 1,
              ttls |-> LongTTL, late |-> FALSE, eager |-> TRUE,
              stores |-> {EmptyStore},
              probes |-> {SpeechListener}])

NextSpeech ==
    \/ Start
    \/ StopCall
    \/ StartSteps
    \/ \E n \in Ids : AudioFrame(n)
    \/ ShortTimerFires
    \/ LongTimerFires
    \/ CountdownFires
    \/ Tick

SpecSpeech == InitSpeech /\ [][NextSpeech]_vars

\* ================================================================ claims
NoTimerPending == pending = [short |-> {}, long |-> {}, tick |-> {}]

HandlesNull(t) ==
    /\ t.stream = NULL /\ t.audioContext = NULL /\ t.sourceNode = NULL
    /\ t.processorNode = NULL /\ t.transcribeClient = NULL /\ t.customStream = NULL
    /\ t.silenceTimeout = NULL /\ t.maxSilenceTimeout = NULL
    /\ t.countdownInterval = NULL

FinalUpdate == StateChange(FALSE, FALSE, <<>>)

\* C1: after any failure path (capability unsupported, a step of start()
\* failing, or a transport error raised by the inbound result stream of an
\* Active session) getState().isListening is false.
C1_FailureLeavesIdle ==
    (\/ op.outcome \in {"thrown", "false"}
     \/ op.name = "result.error" /\ op.outcome # "AbortError")
        => ~this.isListening

\* The handles stop() finds when the catch clause runs: the ones the failing
\* step had just assigned, otherwise the ones held before the step.
HeldStream ==
    IF op'.name \in {"audioGraph.throw", "getUserMedia.resolve"} THEN op'.call
    ELSE this.stream

HeldGraph ==
    IF op'.name = "getUserMedia.resolve" THEN {op'.call}
    ELSE {this.audioContext, this.sourceNode, this.processorNode}

HeldSession == IF op'.name = "provider.resolve" THEN op'.call ELSE this.customStream

HeldClient ==
    IF op'.name = "provider.resolve" THEN op'.call ELSE this.transcribeClient

\* C2: when a step of start() fails, onError receives the message, then a full
\* stop() runs (the handles held are released and null, the bridge is closed,
\* no timer is pending, isListening is false, one final state update, no
\* usage recorded) and the same error is raised to the caller.
C2_StartFailureRollsBack ==
    [][op'.outcome = "thrown" =>
          /\ emitted' = <<OnError(StartErrorMessage(op'.error[1])), FinalUpdate>>
          /\ HandlesNull(this') /\ NoTimerPending'
          /\ ~this'.isListening /\ ~this'.isActivelySpeaking
          /\ this'.silenceCountdown = NULL
          /\ HeldStream \notin live'.streams
          /\ HeldGraph \cap live'.graphs = {}
          /\ HeldClient \notin live'.clients
          /\ HeldSession # NULL => bridges'[HeldSession].closed
          /\ storage'.minutes = storage.minutes
          /\ calls'[op'.call] = "returned"
    ]_vars

\* a start() that failed at send(), after frames armed the timers
C2_Witness ==
    /\ op.name = "send.reject" /\ op.outcome = "thrown"
    /\ bridges[op.call].closed /\ ~this.isListening

\* C3: stop() from any state ends in the same terminal state (flags false,
\* countdown null, every handle null, no timer pending) with one final state
\* update, and a second stop() right after it changes none of it.
C3_StopIdempotent ==
    [][op'.name = "stop" =>
          /\ ~this'.isListening /\ ~this'.isActivelySpeaking
          /\ ~this'.activeStreaming /\ this'.silenceCountdown = NULL
          /\ HandlesNull(this') /\ NoTimerPending'
          /\ emitted' = <<FinalUpdate>>
          /\ op.name = "stop" =>
                 /\ this' = this /\ pending' = pending /\ live' = live
                 /\ bridges' = bridges /\ handlers' = handlers
    ]_vars

\* a second stop(): the one session, started at 1, is counted twice at 2
C3_Witness ==
    /\ op.name = "stop" /\ this.startTime = 1 /\ now = 2
    /\ storage.minutes = 2

\* C4: start() in an Active session returns true and changes nothing.
C4_StartWhenActiveIsNoOp ==
    [][(this.isListening /\ op'.name = "start") =>
          /\ op'.outcome = "true" /\ emitted' = <<>>
          /\ UNCHANGED <<this, storage, calls, live, handlers, late, bridges, sent,
                         results, pending, now>>
    ]_vars

C4_Witness ==
    /\ op.name = "start" /\ op.outcome = "true" /\ this.isListening
    /\ this.stream # NULL

\* C5: an Active session never stays silent for longer than the short pause
\* plus maxSilenceDuration: it has stopped itself by then, whether or not a
\* speech frame was received since start().
SilentSince ==
    IF this.silenceTimeout # NULL THEN this.silenceTimeout - SILENCE_DURATION
    ELSE this.startTime

C5_AutoStopsAfterMaxSilence ==
    this.isListening =>
        now - SilentSince <= SILENCE_DURATION + MaxSilenceDuration

\* C6: when the short timer armed by the last speech frame expires,
\* isActivelySpeaking becomes false, onSpeechEnd fires exactly once, no
\* short timer is left to fire it again, and the long timer and its
\* countdown are armed.
C6_SpeechEndsAfterSilence ==
    op.name = "silenceTimeout" =>
        /\ this.silenceTimeout = now
        /\ ~this.isActivelySpeaking /\ ~this.activeStreaming
        /\ emitted = <<[cb |-> "onSpeechEnd"],
                       StateChange(this.isListening, FALSE, <<>>)>>
        /\ pending.short = {}
        /\ this.maxSilenceTimeout = now + MaxSilenceDuration
        /\ pending.long = {now + MaxSilenceDuration}
        /\ this.countdownInterval = now
        /\ pending.tick = {[t0 |-> now, due |-> now + COUNTDOWN_PERIOD]}

\* the short timer of a speech frame at 1 fires at 2, in an Active session
C6_Witness ==
    /\ op.name = "silenceTimeout" /\ this.isListening
    /\ now = 1 + SILENCE_DURATION /\ pending.long # {}

\* C7: a frame classified as silence outside a speaking episode is not
\* forwarded into the bridge.
C7_SilenceNotForwarded ==
    [][(op'.name = "frame" /\ op'.outcome = "silence" /\ ~this.activeStreaming)
          => bridges' = bridges]_vars

\* C8: a partial result leaves committed unchanged and reports
\* (committed, text); a final result appends text and a space and reports
\* (new committed, "").
C8_PartialAndFinal ==
    [][op'.name = "result" =>
          IF op'.outcome = "partial"
          THEN /\ this'.transcript = this.transcript
               /\ emitted' = <<OnTranscript(this.transcript, op'.text)>>
          ELSE /\ this'.transcript = this.transcript \o op'.text \o " "
               /\ emitted' = <<OnTranscript(this'.transcript, "")>>
    ]_vars

\* a partial reported against a committed text that a final result updated
C8_Witness ==
    /\ op.name = "result" /\ op.outcome = "partial"
    /\ emitted = <<OnTranscript("hello ", "hel")>>

\* C9: committed changes only by a final result (append) or by a reset
\* closure (cleared), and a reset closure clears it whenever it is invoked.
C9_CommittedChangesOnlyByFinalOrReset ==
    [][/\ this'.transcript # this.transcript =>
             \/ /\ op'.name = "result" /\ op'.outcome = "final"
                /\ this'.transcript = this.transcript \o op'.text \o " "
             \/ op'.name = "resetTranscript"
       /\ op'.name = "resetTranscript" => this'.transcript = ""
    ]_vars

\* a reset closure invoked after the session was stopped
C9_Witness ==
    /\ op.name = "resetTranscript" /\ this.transcript = ""
    /\ ~this.isListening /\ this.startTime # NULL

\* C10: getCredentials returns the persisted credential, the provider not
\* invoked, iff one is stored with expiration > now; otherwise the provider
\* is invoked once, with the persisted usage minutes, and its result is what
\* getCredentials returns.
StoredIsFresh == \E c \in storage.creds : c.expiration > now

C10_CacheOrProvider ==
    [][/\ (op'.name = "getUserMedia.resolve" /\ cfg.hasProvider) =>
             IF StoredIsFresh
             THEN /\ op'.credentials = storage.creds
                  /\ op'.hint = <<>>
                  /\ calls'[op'.call] # "credentialsProvider"
                  /\ storage' = storage
             ELSE /\ op'.credentials = {}
                  /\ op'.hint = << IF storage.minutes = NULL THEN 0
                                    ELSE storage.minutes >>
                  /\ calls'[op'.call] = "credentialsProvider"
       /\ op'.name = "provider.resolve" =>
             /\ calls[op'.call] = "credentialsProvider"
             /\ calls'[op'.call] # "credentialsProvider"
             /\ Cardinality(op'.credentials) = 1
             /\ \A c \in op'.credentials : c.key = op'.call
    ]_vars

\* the stored credential is returned and the provider is not invoked
C10_Witness ==
    /\ op.name = "getUserMedia.resolve" /\ op.credentials # {}
    /\ op.credentials = storage.creds /\ calls[op.call] = "send"
\* C11: getCredentials fails with 'No credentials provider available' when no
\* provider is configured, with 'No credentials available' when the provider
\* yields nothing, and with the provider's own error when it raises; each
\* time the persisted credential entry is as it was, start() rejects and
\* onError receives the message.
GetCredentialsFailure ==
    IF op'.name = "provider.null" THEN "No credentials available"
    ELSE IF op'.name = "provider.reject" THEN ProviderError
    ELSE "No credentials provider available"

C12_FetchIsPersistedAndReused ==
    [][/\ op'.name = "provider.resolve" => storage'.creds = op'.credentials
       /\ storage'.creds # storage.creds => op'.name = "provider.resolve"
       /\ (op'.name = "getUserMedia.resolve" /\ op'.outcome = "provider") =>
             \A c \in storage.creds : c.expiration <= now
    ]_vars

\* the second cycle runs on the credential the first one fetched
C12_Witness ==
    /\ op.name = "getUserMedia.resolve" /\ op.call = 2
    /\ op.credentials = storage.creds
    /\ \E c \in storage.creds : c.key = 1 /\ c.expiration > now
    /\ calls[1] = "returned"
\* C13: when the persisted credential blob cannot be parsed, getCredentials
\* clears the entry and re-raises the parse error, so start() fails and the
\* provider is not asked for fresh credentials.
C13_ParseFailureIsRaised ==
    [][(op'.name = "getUserMedia.resolve" /\ cfg.hasProvider /\ storage.corrupt) =>
          /\ ~storage'.corrupt
          /\ op'.outcome = "thrown"
          /\ calls'[op'.call] # "credentialsProvider"
    ]_vars
\* C14: without a key/value store every getCredentials call invokes the
\* provider, with usage hint 0, neither credentials nor usage minutes are
\* ever persisted, and start() goes on to open the session with the
\* credentials the provider returned.
C14_NoStoreAlwaysFetches ==
    [][~storage.present =>
          /\ storage' = storage
          /\ (op'.name = "getUserMedia.resolve" /\ cfg.hasProvider) =>
                 /\ op'.outcome = "provider" /\ op'.hint = <<0>>
                 /\ calls'[op'.call] = "credentialsProvider"
          /\ (op'.name = "provider.resolve" /\ this.processorNode # NULL) =>
                 /\ calls'[op'.call] = "send"
                 /\ \A c \in op'.credentials : c.key = op'.call
    ]_vars

\* stop() after a second session without a store: no usage, no credentials
C14_Witness ==
    /\ ~storage.present /\ op.name = "stop" /\ ~this.isListening
    /\ this.startTime # NULL /\ now > this.startTime
    /\ this.transcribeStream = 2 /\ storage = NoStore
\* C15: when the capability probe reported unsupported, start() acquires
\* nothing, leaves the session state as it is (isListening false), reports
\* the capability error through onError and returns false at once.
C15_UnsupportedFailsFast ==
    [][~cfg.browserSupported =>
          /\ this' = InitThis
          /\ live' = [streams |-> {}, graphs |-> {}, clients |-> {}]
          /\ (op'.name = "start" \/ (op'.name = "toggle" /\ ~this.isListening)) =>
                 /\ op'.outcome = "false"
                 /\ emitted' = <<OnError(Unsupported)>>
                 /\ UNCHANGED <<this, storage, calls, live, handlers, late, bridges,
                                sent, results, pending, now>>
    ]_vars

\* start() was called on an unsupported platform, after some time
C15_Witness ==
    /\ op.name = "start" /\ op.outcome = "false" /\ ~cfg.browserSupported
    /\ now > 1 /\ emitted = <<OnError(Unsupported)>>
\* C16: toggle() does what stop() does if the session is Active and what
\* start() does otherwise; so a toggle() of an Active session, which a
\* toggle() from Idle has led to, leaves isListening false.
C16_ToggleStopsOrStarts ==
    [][op'.name = "toggle" =>
          IF this.isListening
          THEN LET w == Stop(World, now)
               IN  /\ this' = w.this /\ pending' = w.pending
                   /\ storage' = w.storage /\ live' = w.live
                   /\ bridges' = w.bridges /\ emitted' = w.emitted
                   /\ calls' = calls
                   /\ ~this'.isListening /\ op'.outcome = "true"
          ELSE /\ UNCHANGED <<this, pending, storage, live, bridges>>
               /\ IF ~cfg.browserSupported
                  THEN /\ op'.outcome = "false" /\ calls' = calls
                       /\ emitted' = <<OnError(Unsupported)>>
                  ELSE /\ op'.outcome = "pending" /\ emitted' = <<>>
                       /\ calls[op'.call] = "none"
                       /\ calls' = [calls EXCEPT ![op'.call] = "getUserMedia"]
    ]_vars

\* toggle() has stopped a session that was Active
C16_Witness ==
    /\ op.name = "toggle" /\ op.outcome = "true" /\ ~this.isListening
    /\ this.startTime # NULL /\ this.transcribeStream # NULL
    /\ emitted = <<FinalUpdate>>
\* C17: a newly constructed controller is Idle (isListening false,
\* isActivelySpeaking false, silenceCountdown null); when start() completes
\* isListening is true and the state update {isListening: true,
\* isActivelySpeaking: false} has been emitted; after stop() isListening is
\* false.
C17_IdleActiveIdle ==
    /\ op.name = "new" =>
          /\ ~this.isListening /\ ~this.isActivelySpeaking
          /\ this.silenceCountdown = NULL
    /\ op.name = "send.resolve" =>
          /\ op.outcome = "true" /\ this.isListening
          /\ emitted = <<StateChange(TRUE, FALSE, <<>>)>>
          /\ calls[op.call] = "returned"
    /\ op.name = "stop" => ~this.isListening

\* start() has just completed
C17_Witness ==
    /\ op.name = "send.resolve" /\ this.isListening /\ this.startTime = now
    /\ this.stream = op.call /\ this.transcribeStream = op.call
\* C18: a stop() that finds a recorded start time sets the persisted usage
\* counter to its previous value (0 when none is stored) plus the time
\* elapsed since that start; a stop() that finds none, the one of the catch
\* clause of start() included, leaves the counter as it is.
C18_UsageAccumulates ==
    [][(op'.name = "stop" \/ op'.outcome = "thrown") =>
          IF op'.name = "stop" /\ this.startTime # NULL
          THEN storage'.minutes =
                   (IF storage.minutes = NULL THEN 0 ELSE storage.minutes)
                       + (now - this.startTime)
          ELSE storage'.minutes = storage.minutes
    ]_vars

\* a session of one time unit added to a counter that held 2
C18_Witness ==
    /\ op.name = "stop" /\ this.startTime = 1 /\ now = 2
    /\ storage.minutes = 3
\* C19: an error raised by the inbound result stream ends the consumption
\* task and is raised to no caller; it is reported through onError exactly
\* once, unless it is a cancellation (its name is AbortError), which is
\* reported to no callback at all.
C19_StreamErrorsAreContained ==
    [][/\ op'.name = "result.error" =>
             /\ emitted' =
                    IF op'.outcome = "AbortError" THEN <<>>
                    ELSE <<OnError("Transcription error: " \o
                                   (IF op'.error[1] = "" THEN "Unknown error"
                                    ELSE op'.error[1]))>>
             /\ results'[op'.call] = "closed"
             /\ UNCHANGED <<this, calls, storage, live, pending, bridges, sent>>
       /\ op'.name \in {"result", "result.error", "result.end"} =>
             results[op'.call] = "open"
    ]_vars

\* the stream of a stopped session ended with an AbortError: nothing reported
C19_Witness ==
    /\ op.name = "result.error" /\ op.outcome = "AbortError"
    /\ ~this.isListening /\ this.transcribeStream = op.call
    /\ emitted = <<>> /\ results[op.call] = "closed"
\* C20: while the long timer is armed the countdown callback runs once per
\* second and emits a state update with isActivelySpeaking false and
\* silenceCountdown = the whole seconds left until the long timer is due;
\* within one countdown the values strictly decrease and are never
\* negative; when the long timer expires stop() runs.
C20_CountdownToCutoff ==
    [][/\ pending'.long # {} =>
             \/ \E r \in pending'.tick : r.due - now' \in 0..COUNTDOWN_PERIOD
             \/ now' \in pending'.long
       /\ op'.name = "countdownInterval" =>
             /\ pending.long = {this.maxSilenceTimeout}
             /\ this.maxSilenceTimeout - now >= 0
             /\ emitted' = <<StateChange(this'.isListening, FALSE,
                                         <<this.maxSilenceTimeout - now>>)>>
             /\ this.silenceCountdown # NULL =>
                    this.maxSilenceTimeout - now < this.silenceCountdown
       /\ op'.name = "maxSilenceTimeout" =>
             /\ now = this.maxSilenceTimeout
             /\ ~this'.isListening /\ HandlesNull(this') /\ NoTimerPending'
             /\ emitted' = <<FinalUpdate>>
    ]_vars

\* the last update of a countdown, at the instant the long timer is due
C20_Witness ==
    /\ op.name = "countdownInterval" /\ this.isListening
    /\ emitted = <<StateChange(TRUE, FALSE, <<0>>)>>
    /\ pending.long = {now} /\ pending.tick = {}
\* C21: a speech frame received while speaking only re-arms the short timer
\* and fires no callback; onSpeechStart and its state update fire on the
\* speech frame that finds the controller silent, once.
C21_SpeechStartOncePerEpisode ==
    [][(op'.name = "frame" /\ op'.outcome = "speech") =>
          /\ pending'.short = {now + SILENCE_DURATION}
          /\ this'.activeStreaming /\ this'.isActivelySpeaking
          /\ IF this.activeStreaming
             THEN /\ emitted' = <<>>
                  /\ this' = [this EXCEPT !.silenceTimeout = now + SILENCE_DURATION]
                  /\ pending' = [pending EXCEPT !.short = {now + SILENCE_DURATION}]
             ELSE emitted' = <<[cb |-> "onSpeechStart"],
                               StateChange(this.isListening, TRUE, <<>>)>>
    ]_vars

\* a speech frame one second after the one that began the episode
C21_Witness ==
    /\ op.name = "frame" /\ op.outcome = "speech" /\ emitted = <<>>
    /\ now = 2 /\ pending.short = {3} /\ this.isActivelySpeaking
\* C22: classify(f, t) is true iff rms(f) > t, strictly, and an empty frame
\* is silence for every t.  rms(f) > t iff t < 0 or mean square > t^2; with
\* threshold 20 (0.02) an RMS of 50 is speech and an RMS of 10 is silence.
MeanSquareAbove(f, t) == SumSquares(f) > t * t * Len(f)

C22_ClassifyIsRmsAboveThreshold ==
    probe.result # <<>> =>
        /\ probe.result[1] =
               (/\ Len(probe.frame) > 0
                /\ (probe.threshold < 0 \/ MeanSquareAbove(probe.frame, probe.threshold)))
        /\ (probe.frame = <<50, -50>> /\ probe.threshold = 20) => probe.result[1]
        /\ (probe.frame = <<10, -10>> /\ probe.threshold = 20) => ~probe.result[1]

\* a frame whose RMS equals the threshold has been classified: silence
C22_Witness ==
    /\ probe.result = <<FALSE>> /\ probe.frame = <<20, -20>>
    /\ probe.threshold = 20

\* C23: in the default UI of the React binding the button reads
\* "Start Recording" while the controller is not listening and
\* "Stop Recording" while it is: every click is a call of toggle(), and once
\* the callbacks of a step have run the text follows the controller's
\* isListening (start, then stop, gives "Start Recording" again).
C23_ButtonFollowsListening ==
    Mounted(probe) =>
        ButtonText(probe) =
            IF this.isListening THEN "Stop Recording" ELSE "Start Recording"

C23_Witness ==
    /\ Mounted(probe) /\ op.name = "toggle" /\ emitted = <<FinalUpdate>>
    /\ calls[1] = "returned" /\ ButtonText(probe) = "Start Recording"

\* the requests of the consumer that are still suspended
Suspended == {k \in 1..Len(probe.requests) : probe.requests[k] = <<>>}

\* the chunks handed to the consumer, in the order of its requests
Delivered ==
    LET got == SelectSeq(probe.requests, LAMBDA x : x # <<>> /\ ~x[1].done)
    IN  [k \in 1..Len(got) |-> got[k][1].value]

\* C24: after any sequence of enqueue, close and next() the buffer and the
\* list of waiting requests are never both non-empty; an enqueue on an open
\* stream answers the oldest waiting request when there is one and appends to
\* the buffer otherwise.
C24_BufferOrWaitersEmpty ==
    /\ [](Len(bridges[1].buffer) = 0 \/ Len(bridges[1].listeners) = 0)
    /\ [][op'.name = "enqueue" /\ ~bridges[1].closed =>
             LET b == bridges[1]
                 chunk == probe'.enqueued
             IN  IF Len(b.listeners) > 0
                 THEN /\ probe'.requests[Head(b.listeners)] =
                             <<Item(Head(b.listeners), chunk)>>
                      /\ bridges'[1].listeners = Tail(b.listeners)
                      /\ bridges'[1].buffer = b.buffer
                 ELSE /\ bridges'[1].buffer = Append(b.buffer, chunk)
                      /\ probe'.requests = probe.requests]_vars

C24_Witness ==
    /\ probe.trace = <<"next", "next", "enqueue", "enqueue", "enqueue">>
    /\ bridges[1].buffer = <<3>> /\ bridges[1].listeners = <<>>

\* C25: under any interleaving of enqueue and next() the chunks handed to the
\* consumer, in the order of its requests, followed by the chunks still
\* buffered, are exactly the chunks enqueued while the stream was open, in
\* that order: nothing is handed out twice, out of order or lost, and no
\* request is answered with a chunk before an earlier one was.
C25_FifoExactlyOnce ==
    /\ Delivered \o bridges[1].buffer = probe.accepted
    /\ \A k \in 1..Len(probe.requests) :
          (probe.requests[k] # <<>> /\ ~probe.requests[k][1].done) =>
              /\ probe.requests[k][1].to = k
              /\ \A j \in 1..(k - 1) :
                    probe.requests[j] # <<>> /\ ~probe.requests[j][1].done

C25_Witness ==
    /\ probe.trace = <<"next", "enqueue", "enqueue", "enqueue", "next", "next">>
    /\ Delivered = <<1, 2, 3>>

C27_ClosedStreamDrains ==
    [][bridges[1].closed =>
          /\ op'.name = "enqueue" =>
                /\ bridges'[1] = bridges[1]
                /\ probe'.requests = probe.requests
                /\ probe'.accepted = probe.accepted
          /\ op'.name = "next" =>
                LET b == bridges[1]
                    r == Len(probe'.requests)
                IN  /\ bridges'[1].listeners = <<>>
                    /\ IF Len(b.buffer) > 0
                       THEN /\ probe'.requests[r] = <<Item(r, Head(b.buffer))>>
                            /\ bridges'[1].buffer = Tail(b.buffer)
                       ELSE /\ probe'.requests[r] = <<Done(r)>>
                            /\ bridges'[1].buffer = <<>>]_vars

C27_Witness ==
    /\ probe.trace = <<"enqueue", "enqueue", "close", "enqueue", "next", "next", "next">>
    /\ probe.requests = << <<Item(1, 1)>>, <<Item(2, 2)>>, <<Done(3)>> >>
    /\ probe.accepted = <<1, 2>>

\* C28: in every reachable state at most one short timer, one long timer
\* and one countdown interval are pending, and they are the ones the fields
\* of the client name; a step that arms a timer leaves no earlier timer of
\* that kind pending, and the long timer is armed only by the short timer
\* firing while no long timer is armed.
C28_OneTimerOfEachKind ==
    /\ [](/\ Cardinality(pending.short) <= 1
          /\ Cardinality(pending.long) <= 1
          /\ Cardinality(pending.tick) <= 1
          /\ pending.short \subseteq {this.silenceTimeout}
          /\ pending.long \subseteq {this.maxSilenceTimeout}
          /\ \A r \in pending.tick : r.t0 = this.countdownInterval)
    /\ [][/\ pending'.short \ pending.short # {} =>
                pending'.short \cap pending.short = {}
          /\ pending'.long \ pending.long # {} =>
                /\ op'.name = "silenceTimeout"
                /\ pending.long = {} /\ this.maxSilenceTimeout = NULL
                /\ pending.tick = {}]_vars

\* a speech frame re-arms the short timer that an earlier frame armed
C28_Witness ==
    /\ op.name = "frame" /\ op.outcome = "speech" /\ emitted = <<>>
    /\ now > 1 /\ pending.short = {now + SILENCE_DURATION}

\* C29: a frame classified as speech leaves no long timer and no countdown
\* interval pending, silenceCountdown null and one fresh short timer
\* pending, whatever was armed before it: the hard timeout armed during the
\* silence cannot fire once speech has resumed.
C29_SpeechCancelsHardTimeout ==
    [][(op'.name = "frame" /\ op'.outcome = "speech") =>
          /\ pending'.long = {} /\ this'.maxSilenceTimeout = NULL
          /\ pending'.tick = {} /\ this'.countdownInterval = NULL
          /\ this'.silenceCountdown = NULL
          /\ pending'.short = {now + SILENCE_DURATION}
          /\ this'.silenceTimeout = now + SILENCE_DURATION]_vars

\* speech resumes while the long timer armed by the silence is pending
C29_Witness ==
    /\ op.name = "frame" /\ op.outcome = "speech" /\ op.hint # <<>>
    /\ this.isListening /\ pending.long = {}
    /\ pending.short = {now + SILENCE_DURATION}

\* what stop() has done in the world w, against the state it was called in
UsagePersisted(w) == w.storage = StopUsage(this, storage, now)

BridgeClosed(w) ==
    /\ w.this.customStream = NULL
    /\ this.customStream # NULL => w.bridges[this.customStream].closed

CaptureReleased(w) ==
    /\ w.this.processorNode = NULL /\ w.this.sourceNode = NULL
    /\ w.this.audioContext = NULL /\ w.this.stream = NULL
    /\ w.live.graphs = StopRelease(this, live).graphs
    /\ w.live.streams = StopRelease(this, live).streams

ClientDestroyed(w) ==
    /\ w.this.transcribeClient = NULL
    /\ w.live.clients = StopRelease(this, live).clients

BridgeUntouched(w) == w.bridges = bridges /\ w.this.customStream = this.customStream

CaptureUntouched(w) ==
    /\ w.live.graphs = live.graphs /\ w.live.streams = live.streams
    /\ w.this.processorNode = this.processorNode
    /\ w.this.sourceNode = this.sourceNode
    /\ w.this.audioContext = this.audioContext
    /\ w.this.stream = this.stream

ClientUntouched(w) ==
    w.live.clients = live.clients /\ w.this.transcribeClient = this.transcribeClient

TimersUntouched(w) ==
    /\ w.pending = pending
    /\ w.this.silenceTimeout = this.silenceTimeout
    /\ w.this.maxSilenceTimeout = this.maxSilenceTimeout
    /\ w.this.countdownInterval = this.countdownInterval

\* C30: stop() tears down in a fixed order.  After any number of its
\* statements: nothing is closed, released or cancelled before the usage is
\* persisted; no capture or audio-graph handle is released before the bridge
\* is closed; the network client is not destroyed before those handles are
\* released; no timer is cancelled before the client is destroyed; and the
\* state update is fired only when all the rest is done.  The statements
\* together are the step stop() takes.
C30_TeardownOrder ==
    [][op'.name = "stop" =>
          /\ \A k \in 0..Len(StopOrder) :
                LET w == StopPrefix(World, k, now)
                IN  /\ ~UsagePersisted(w) =>
                           /\ BridgeUntouched(w) /\ CaptureUntouched(w)
                           /\ ClientUntouched(w) /\ TimersUntouched(w)
                    /\ ~BridgeClosed(w) =>
                           /\ CaptureUntouched(w) /\ ClientUntouched(w)
                           /\ TimersUntouched(w)
                    /\ ~CaptureReleased(w) => ClientUntouched(w) /\ TimersUntouched(w)
                    /\ ~ClientDestroyed(w) => TimersUntouched(w)
                    /\ w.emitted # <<>> => k = Len(StopOrder)
          /\ LET w == StopPrefix(World, Len(StopOrder), now)
             IN  /\ this' = w.this /\ pending' = w.pending /\ storage' = w.storage
                 /\ bridges' = w.bridges /\ live' = w.live /\ late' = w.late
                 /\ emitted' = w.emitted]_vars

\* stop() has returned from a session that was Active for some time: the
\* minutes are persisted, the bridge is closed and nothing is left pending
C30_Witness ==
    /\ op.name = "stop" /\ emitted = <<FinalUpdate>>
    /\ calls[1] = "returned" /\ bridges[1].closed
    /\ storage.minutes # NULL /\ storage.minutes > 0
    /\ now >= 1 + SILENCE_DURATION + COUNTDOWN_PERIOD
    /\ this.customStream = NULL /\ NoTimerPending

\* C31: whichever of the cleanup calls of stop() throw (closing the bridge,
\* disconnecting the nodes, closing the audio context, stopping the tracks,
\* destroying the client), every other one takes effect, every handle is
\* null afterwards, the timers are cancelled, the flags are those of Idle,
\* the usage is persisted and the final state update is the one callback.
C31_CleanupStepsIsolated ==
    [][op'.name = "stop" =>
          LET failed == op'.hint[1]
          IN  /\ this' = Stop(World, now).this
              /\ HandlesNull(this') /\ this'.customStream = NULL
              /\ ~this'.isListening /\ ~this'.isActivelySpeaking
              /\ ~this'.activeStreaming /\ this'.silenceCountdown = NULL
              /\ pending' = StopTimers(this, pending) /\ NoTimerPending'
              /\ storage' = StopUsage(this, storage, now)
              /\ emitted' = <<FinalUpdate>>
              /\ ("customStream" \notin failed /\ this.customStream # NULL) =>
                     bridges'[this.customStream].closed
              /\ \A h \in {"processorNode", "sourceNode", "audioContext"} \ failed :
                     this[h] \notin live'.graphs
              /\ "stream" \notin failed => this.stream \notin live'.streams
              /\ "transcribeClient" \notin failed =>
                     this.transcribeClient \notin live'.clients]_vars

\* stop() of an Active session in which the bridge, the audio context and
\* the client failed to close: the rest was done all the same
C31_Witness ==
    /\ op.name = "stop" /\ emitted = <<FinalUpdate>>
    /\ op.hint = <<{"customStream", "audioContext", "transcribeClient"}>>
    /\ calls[1] = "returned" /\ ~bridges[1].closed /\ live.clients = {1}
    /\ live.streams = {} /\ live.graphs = {}
    /\ HandlesNull(this) /\ NoTimerPending /\ storage.minutes # NULL

\* C32: order is kept from end to end.  The chunk a consumer receives, by a
\* pull or handed over by the frame callback, is the oldest one passed to its
\* bridge and not received yet, and the bridge holds exactly those in the
\* order of their frames; every result event fires its onTranscript within
\* the step that delivers it, and the committed text is that of the final
\* results in the order of their delivery.
C32_OrderEndToEnd ==
    /\ [](/\ \A c \in Ids : probe.queue[c] = bridges[c].buffer
          /\ this.transcript = probe.committed)
    /\ [][/\ probe'.got # <<>> =>
                LET c == IF op'.name = "pull" THEN op'.call ELSE this.customStream
                    q == IF op'.name = "pull" THEN probe.queue[c]
                         ELSE Append(probe.queue[c], Pcm16(op'.frame))
                IN  q # <<>> /\ probe'.got[1] = Head(q)
          /\ op'.name = "result" =>
                emitted' = <<OnTranscript(probe'.committed,
                                          IF op'.outcome = "partial"
                                          THEN op'.text ELSE "")>>]_vars

\* the consumer pulled the chunk of a speech frame while the chunk of the
\* silent frame that came after it waits in the bridge, after a final result
C32_Witness ==
    /\ op.name = "pull" /\ probe.got = <<Pcm16(SpeechFrame)>>
    /\ bridges[1].buffer = <<Pcm16(SilentFrame)>>
    /\ probe.committed = "hel hel "

\* C33: a session's time is added to the usage counter once.  Refuted in
\* this form: a stop() called while the client is not listening completes no
\* session and leaves the persisted counter as it was.
C33_IdleStopAddsNothing ==
    [][op'.name = "stop" /\ ~this.isListening => storage' = storage]_vars

\* C34: active implies resources held.  Refuted in this form: whenever
\* isListening is true the bridge is set and open, and the capture stream,
\* the audio graph and the network client are set and live.
C34_ListeningHoldsResources ==
    this.isListening =>
        /\ this.customStream # NULL /\ ~bridges[this.customStream].closed
        /\ this.stream \in live.streams
        /\ this.audioContext \in live.graphs
        /\ this.sourceNode \in live.graphs
        /\ this.processorNode \in live.graphs
        /\ this.transcribeClient \in live.clients

\* C35: acquire and release are paired under overlapping calls.  Refuted in
\* this form: after a stop() called when no start() is in flight, no capture
\* stream, audio graph or network client is live.
C35_FinalStopReleasesAll ==
    [][op'.name = "stop" /\ InFlight = {} =>
          live' = [streams |-> {}, graphs |-> {}, clients |-> {}]]_vars

\* C36: frames outside a session change nothing.  Refuted in this form:
\* whenever isListening is false, isActivelySpeaking is false, the countdown
\* is null and no silence timer is pending.
C36_IdleIsQuiet ==
    ~this.isListening =>
        /\ ~this.isActivelySpeaking
        /\ this.silenceCountdown = NULL
        /\ NoTimerPending

\* C37: state updates agree with getState().  Refuted in this form: the
\* isListening and isActivelySpeaking of every onStateChange a step fires are
\* the values the fields have when the step ends (no handler changes either
\* field after its state update).
C37_UpdatesAgreeWithState ==
    [][\A k \in 1..Len(emitted') :
          emitted'[k].cb = "onStateChange" =>
              /\ emitted'[k].isListening = this'.isListening
              /\ emitted'[k].isActivelySpeaking = this'.isActivelySpeaking]_vars

\* C38: onSpeechStart and onSpeechEnd alternate, beginning with
\* onSpeechStart.  Refuted in this form: onSpeechStart is never fired when the
\* last of the two fired was onSpeechStart, and onSpeechEnd is fired only
\* when the last was onSpeechStart.
C38_SpeechCallbacksAlternate ==
    [][\A k \in 1..Len(emitted') :
          /\ emitted'[k].cb = "onSpeechStart" => probe.last # "onSpeechStart"
          /\ emitted'[k].cb = "onSpeechEnd" => probe.last = "onSpeechStart"]_vars

\* C39: the React binding mirrors the controller.  Refuted in this form:
\* after a step that fired onStateChange, the silenceCountdown of a mounted
\* component equals the silenceCountdown of the controller.
C39_CountdownMirrored ==
    (/\ Mounted(probe)
     /\ \E k \in 1..Len(emitted) : emitted[k].cb = "onStateChange")
        => probe.silenceCountdown = this.silenceCountdown

\* C40: a result task belongs to one session.  Refuted in this form: a
\* result event of a session that stop() has ended (the client is not
\* listening and holds another network client, or none) fires no callback
\* and leaves the committed text as it was.
C40_StoppedSessionIsSilent ==
    [][(/\ op'.name = "result"
        /\ ~this.isListening
        /\ this.transcribeClient # op'.call)
          => emitted' = <<>> /\ this'.transcript = this.transcript]_vars
====
